---- MODULE Spec2Model ----
(***************************************************************************)
(* split_fasta.py: split a multiFASTA file in several chunks, either by a  *)
(* number of chunks (split) or by a file size (split_depending_on_size).   *)
(*                                                                         *)
(* A string is a sequence of one-character strings.  A file is the         *)
(* sequence of its lines as Python's file iteration yields them (each with *)
(* its terminator, except possibly the last).  A chunk file on disk is the *)
(* sequence of the texts handed to its stream, one per record written.     *)
(***************************************************************************)
EXTENDS Integers, Sequences, FiniteSets

VARIABLES
    lines,            \* content of the input file, as a sequence of lines
    linesep,          \* os.linesep of the host platform
    num_chunks,       \* args.num_chunks   (0: None, or 0, both falsy)
    max_file_size,    \* args.max_file_size (0: None, or 0, both falsy)
    pc,               \* position of the program
    num_entries,      \* __main__: num_entries
    chunk_size,       \* __main__: chunk_size
    pending,          \* records read_fasta(stream) has still to yield
    cur_chunk,        \* split / split_depending_on_size: cur_chunk
    entries_in_chunk, \* split: entries_in_chunk
    file_size,        \* split_depending_on_size: file_size
    chunk_files,      \* the chunk files on disk: chunk_files[k] is chunk k
    exit_status,      \* exit status of the process (None while it runs)
    help_printed,     \* parser.print_help() was called
    error_path,       \* the path named by the "Error cannot open" message
    failed_file,      \* the file whose operation raised IOError
    fill_text,        \* fill's argument text
    fill_width,       \* fill's argument width
    ret               \* value returned by the function applied

vars == <<lines, linesep, num_chunks, max_file_size, pc, num_entries,
          chunk_size, pending, cur_chunk, entries_in_chunk, file_size,
          chunk_files, exit_status, help_printed, error_path, failed_file,
          fill_text, fill_width, ret>>

----------------------------------------------------------------------------
(* Bounds of the model *)

MaxLines == 5

MaxChunks == 3

MaxFileSize == 8

MaxReadLines == 3

MaxLen == 5

MaxWidth == 3

(* Program constant: the default width of fill *)
DefaultWidth == 80

----------------------------------------------------------------------------
(* Characters and strings *)

GT == ">"
LF == "\n"
CR == "\r"
SP == " "
\* the vertical tab, "\x0b"
VT == ""
None == <<"None">>

\* the characters str.rstrip() strips: string.whitespace, "\t\n\x0b\x0c\r "
Whitespace == {SP, "\t", LF, VT, "\f", CR}

Min(a, b) == IF a <= b THEN a ELSE b

\* str.startswith
startswith(line, prefix) ==
    /\ Len(line) >= Len(prefix)
    /\ SubSeq(line, 1, Len(prefix)) = prefix

\* only the final "\n" removed, as line.rstrip("\n") does on a POSIX line
rstrip_newline(line) ==
    IF line # <<>> /\ line[Len(line)] = LF
    THEN SubSeq(line, 1, Len(line) - 1) ELSE line

\* str.rstrip(): every trailing whitespace character removed
RECURSIVE rstrip(_)
rstrip(line) ==
    IF line = <<>> THEN <<>>
    ELSE IF line[Len(line)] \in Whitespace
         THEN rstrip(SubSeq(line, 1, Len(line) - 1))
         ELSE line

\* sep.join(pieces)
RECURSIVE join(_, _)
join(sep, pieces) ==
    IF pieces = <<>> THEN <<>>
    ELSE IF Len(pieces) = 1 THEN pieces[1]
    ELSE pieces[1] \o sep \o join(sep, Tail(pieces))

----------------------------------------------------------------------------
(* The functions of split_fasta.py *)

\* read_fasta, from the state (header, seq) it holds before a line is read:
\* the records it yields for the rest of the stream
RECURSIVE read_fasta_from(_, _, _)
read_fasta_from(fasta_stream, header, seq) ==
    IF fasta_stream = <<>>
    THEN IF header # None THEN << <<header, join(<<>>, seq)>> >> ELSE <<>>
    ELSE LET line == rstrip(Head(fasta_stream)) IN
         IF startswith(line, <<GT>>)
         THEN (IF header # None THEN << <<header, join(<<>>, seq)>> >> ELSE <<>>)
              \o read_fasta_from(Tail(fasta_stream), line, <<>>)
         ELSE read_fasta_from(Tail(fasta_stream), header, Append(seq, line))

\* read_fasta(fasta_stream): the sequence of (header, seq) pairs it yields
read_fasta(fasta_stream) == read_fasta_from(fasta_stream, None, <<>>)

\* count_entries: the number of lines that start with ">"
count_entries(stream) ==
    Cardinality({i \in 1..Len(stream) : startswith(stream[i], <<GT>>)})

\* fill with the last, shorter piece forgotten
fill_whole_pieces(text, width) ==
    LET n == Len(text) \div width IN
    join(linesep,
         [k \in 1..n |-> SubSeq(text, (k - 1) * width + 1,
                                Min(k * width, Len(text)))])

\* fill with one piece too many when width divides len(text)
fill_extra_piece(text, width) ==
    LET n == (Len(text) \div width) + 1 IN
    join(linesep,
         [k \in 1..n |-> SubSeq(text, (k - 1) * width + 1,
                                Min(k * width, Len(text)))])

\* fill(text, width): text[i:i+width] for i in xrange(0, len(text), width),
\* joined by os.linesep
fill(text, width) ==
    LET n == (Len(text) + width - 1) \div width IN
    join(linesep,
         [k \in 1..n |-> SubSeq(text, (k - 1) * width + 1,
                                Min(k * width, Len(text)))])

\* chunk_size rounded down instead of up
chunk_size_floor(entries, chunks) == entries \div chunks

\* __main__: chunk_size = (num_entries + args.num_chunks - 1)/(args.num_chunks),
\* "/" being Python 2's integer division
compute_chunk_size(entries, chunks) == (entries + chunks - 1) \div chunks

\* the rollover test of split, one record late
split_rollover_late(entries, size) == entries > size

\* the rollover test of split_depending_on_size, strict
size_rollover_strict(size, max_size) == size > max_size

\* the rollover test of split_depending_on_size, one byte early
size_rollover_early(size, max_size) == size + 1 >= max_size

\* split: the rollover test, entries_in_chunk == chunk_size
split_rollover(entries, size) == entries = size

\* split_depending_on_size: the rollover test, file_size >= max_file_size
size_rollover(size, max_size) == size >= max_size

\* split: what print("{1}{0}{2}".format(os.linesep, header, fill(seq)),
\* file=chunk_stream) hands to the stream: print ends the text with "\n"
split_output(header, seq) ==
    header \o linesep \o fill(seq, DefaultWidth) \o <<LF>>

\* split_depending_on_size: output = "{1}{0}{2}{0}".format(os.linesep, header,
\* fill(seq))
size_output(header, seq) ==
    header \o linesep \o fill(seq, DefaultWidth) \o linesep

\* the input path, and "{0}_{1}{2}".format(output_file_prefix, cur_chunk,
\* fasta_file_extension)
fasta_file == <<"in/seqs", ".fa">>
chunk_file(k) == <<"out/seqs", "_", k, ".fa">>

----------------------------------------------------------------------------
(* Inputs *)

\* a sequence line longer than fill's width: fill wraps it
LongLine == [i \in 1..(DefaultWidth + 1) |-> "A"] \o <<LF>>

\* the lines the input file of a run is made of
FileLines == { <<GT, "a", LF>>, <<"A", "C", LF>>, LongLine }

\* the lines read_fasta is applied to
ReadLines == { <<GT, "a", LF>>, <<GT, "b", SP, VT, LF>>, <<"A", "C", LF>>,
               <<"G", SP, CR, LF>>, <<LF>> }

\* the input files of a run: at most MaxLines lines, one of them at most long
InputFiles ==
    { f \in UNION { [1..k -> FileLines] : k \in 0..MaxLines } :
        Cardinality({ i \in 1..Len(f) : f[i] = LongLine }) <= 1 }

\* the files of at most n lines drawn from kinds
Files(kinds, n) == UNION { [1..k -> kinds] : k \in 0..n }

\* a file whose last line has no terminator
WithoutFinalTerminator(file) ==
    IF file = <<>> \/ file[Len(file)] = <<LF>> THEN file
    ELSE [file EXCEPT ![Len(file)] = SubSeq(@, 1, Len(@) - 1)]

\* the values of -m tried
FileSizes == {0, 1, 4, 5, MaxFileSize}

\* the (-n, -m) pairs tried: one of the two, neither, or both
Policies ==
    { p \in (0..MaxChunks) \X FileSizes : p[1] = 0 \/ p[2] \in {0, MaxFileSize} }

\* os.linesep on POSIX and on Windows
Lineseps == { <<LF>>, <<CR, LF>> }

----------------------------------------------------------------------------
(* The program *)

\* the state of a process that has not started a writer
Idle ==
    /\ num_entries = 0
    /\ chunk_size = 0
    /\ pending = <<>>
    /\ cur_chunk = 0
    /\ entries_in_chunk = 0
    /\ file_size = 0
    /\ chunk_files = <<>>
    /\ exit_status = None
    /\ help_printed = FALSE
    /\ error_path = None
    /\ failed_file = None

Init ==
    /\ lines \in InputFiles
    /\ linesep \in Lineseps
    /\ \E p \in Policies : num_chunks = p[1] /\ max_file_size = p[2]
    /\ pc = "main"
    /\ Idle
    /\ fill_text = <<>>
    /\ fill_width = DefaultWidth
    /\ ret = None

\* a chunk file cut to its first n characters: the texts that fit whole, then
\* the part that fits of the next one
RECURSIVE Truncated(_, _)
Truncated(chunk, n) ==
    IF chunk = <<>> \/ n <= 0 THEN <<>>
    ELSE IF Len(Head(chunk)) <= n
         THEN <<Head(chunk)>> \o Truncated(Tail(chunk), n - Len(Head(chunk)))
         ELSE <<SubSeq(Head(chunk), 1, n)>>

\* the number of characters handed to a chunk's stream
RECURSIVE Handed(_)
Handed(chunk) ==
    IF chunk = <<>> THEN 0 ELSE Len(Head(chunk)) + Handed(Tail(chunk))

\* what a chunk file may hold once a write to it or its close has raised
\* IOError: the stream is buffered, so any prefix of what was handed to it,
\* short of the text whose write failed
CutShort(chunk, least_lost) ==
    { Truncated(chunk, n) : n \in 0..(Handed(chunk) - least_lost) }

\* except IOError: sys.exit("Error cannot open {0}".format(fasta_file))
Abort(failed) ==
    /\ pc' = "exited"
    /\ exit_status' = 1
    /\ error_path' = fasta_file
    /\ failed_file' = failed

\* __main__, to the choice of the policy
Main ==
    /\ pc = "main"
    /\ IF num_chunks = 0 /\ max_file_size = 0
       THEN \* sys.exit(parser.print_help()): print_help returns None
            /\ help_printed' = TRUE
            /\ exit_status' = 0
            /\ pc' = "exited"
       ELSE /\ pc' = IF num_chunks # 0 THEN "count_entries"
                     ELSE "split_depending_on_size"
            /\ UNCHANGED <<help_printed, exit_status>>
    /\ UNCHANGED <<lines, linesep, num_chunks, max_file_size, num_entries,
                   chunk_size, pending, cur_chunk, entries_in_chunk, file_size,
                   chunk_files, error_path, failed_file, fill_text, fill_width,
                   ret>>

\* __main__: num_entries = count_entries(...); chunk_size = ...
CountEntries ==
    /\ pc = "count_entries"
    /\ num_entries' = count_entries(lines)
    /\ chunk_size' = compute_chunk_size(count_entries(lines), num_chunks)
    /\ pc' = "split"
    /\ UNCHANGED <<lines, linesep, num_chunks, max_file_size, pending,
                   cur_chunk, entries_in_chunk, file_size, chunk_files,
                   exit_status, help_printed, error_path, failed_file,
                   fill_text, fill_width, ret>>

\* count_entries: open(fasta_file) raises IOError
CountEntriesFail ==
    /\ pc = "count_entries"
    /\ Abort(fasta_file)
    /\ UNCHANGED <<lines, linesep, num_chunks, max_file_size, num_entries,
                   chunk_size, pending, cur_chunk, entries_in_chunk, file_size,
                   chunk_files, help_printed, fill_text, fill_width, ret>>

\* split, to the loop: the input and chunk 1 are opened
SplitOpen ==
    /\ pc = "split"
    /\ pending' = read_fasta(lines)
    /\ cur_chunk' = 1
    /\ entries_in_chunk' = 0
    /\ chunk_files' = << <<>> >>
    /\ pc' = "split_loop"
    /\ UNCHANGED <<lines, linesep, num_chunks, max_file_size, num_entries,
                   chunk_size, file_size, exit_status, help_printed,
                   error_path, failed_file, fill_text, fill_width, ret>>

\* split: open(fasta_file) or the open of chunk 1 raises IOError
SplitOpenFail ==
    /\ pc = "split"
    /\ \E failed \in {fasta_file, chunk_file(1)} :
          /\ Abort(failed)
          /\ cur_chunk' = IF failed = fasta_file THEN cur_chunk ELSE 1
    /\ UNCHANGED <<lines, linesep, num_chunks, max_file_size, num_entries,
                   chunk_size, pending, entries_in_chunk, file_size,
                   chunk_files, help_printed, fill_text, fill_width, ret>>

\* split: one turn of the loop, for the next record read_fasta yields
SplitIter ==
    /\ pc = "split_loop"
    /\ pending # <<>>
    /\ LET header == Head(pending)[1]
           seq == Head(pending)[2]
           roll == split_rollover(entries_in_chunk, chunk_size)
           chunk == IF roll THEN cur_chunk + 1 ELSE cur_chunk
           opened == IF roll THEN Append(chunk_files, <<>>) ELSE chunk_files
       IN  /\ cur_chunk' = chunk
           /\ chunk_files' = [opened EXCEPT
                                ![chunk] = Append(@, split_output(header, seq))]
           /\ entries_in_chunk' = (IF roll THEN 0 ELSE entries_in_chunk) + 1
    /\ pending' = Tail(pending)
    /\ UNCHANGED <<lines, linesep, num_chunks, max_file_size, pc, num_entries,
                   chunk_size, file_size, exit_status, help_printed,
                   error_path, failed_file, fill_text, fill_width, ret>>

\* split: a turn of the loop in which reading the input, closing the full
\* chunk, opening the next one or printing the record raises IOError; the
\* chunk whose close or write failed is cut short
SplitIterFail ==
    /\ pc = "split_loop"
    /\ LET roll == pending # <<>> /\ split_rollover(entries_in_chunk, chunk_size)
       IN \E op \in {"read"} \cup (IF pending # <<>> THEN {"write"} ELSE {})
                    \cup (IF roll THEN {"close", "open"} ELSE {}) :
          /\ cur_chunk' = IF roll /\ op # "read" THEN cur_chunk + 1
                          ELSE cur_chunk
          /\ entries_in_chunk' = IF roll /\ op # "read" THEN 0
                                 ELSE entries_in_chunk
          /\ chunk_files' \in
                CASE op = "close" ->
                       { [chunk_files EXCEPT ![cur_chunk] = c] :
                           c \in CutShort(chunk_files[cur_chunk], 0) }
                  [] op = "write" ->
                       LET opened == IF roll THEN Append(chunk_files, <<>>)
                                     ELSE chunk_files
                           output == split_output(Head(pending)[1], Head(pending)[2])
                       IN  { [opened EXCEPT ![cur_chunk'] = c] :
                               c \in CutShort(Append(opened[cur_chunk'], output), 1) }
                  [] OTHER -> {chunk_files}
          /\ Abort(CASE op = "read" -> fasta_file
                     [] op = "close" -> chunk_file(cur_chunk)
                     [] OTHER -> chunk_file(cur_chunk'))
    /\ UNCHANGED <<lines, linesep, num_chunks, max_file_size, num_entries,
                   chunk_size, pending, file_size, help_printed, fill_text,
                   fill_width, ret>>

\* split: the input is exhausted, the last chunk is closed; the program ends
SplitEnd ==
    /\ pc = "split_loop"
    /\ pending = <<>>
    /\ pc' = "done"
    /\ exit_status' = 0
    /\ UNCHANGED <<lines, linesep, num_chunks, max_file_size, num_entries,
                   chunk_size, pending, cur_chunk, entries_in_chunk, file_size,
                   chunk_files, help_printed, error_path, failed_file,
                   fill_text, fill_width, ret>>

\* split: the close of the last chunk raises IOError
SplitEndFail ==
    /\ pc = "split_loop"
    /\ pending = <<>>
    /\ Abort(chunk_file(cur_chunk))
    /\ chunk_files' \in { [chunk_files EXCEPT ![cur_chunk] = c] :
                           c \in CutShort(chunk_files[cur_chunk], 0) }
    /\ UNCHANGED <<lines, linesep, num_chunks, max_file_size, num_entries,
                   chunk_size, pending, cur_chunk, entries_in_chunk, file_size,
                   help_printed, fill_text, fill_width, ret>>

\* split_depending_on_size, to the loop: the input and chunk 1 are opened
SizeOpen ==
    /\ pc = "split_depending_on_size"
    /\ pending' = read_fasta(lines)
    /\ cur_chunk' = 1
    /\ file_size' = 0
    /\ chunk_files' = << <<>> >>
    /\ pc' = "size_loop"
    /\ UNCHANGED <<lines, linesep, num_chunks, max_file_size, num_entries,
                   chunk_size, entries_in_chunk, exit_status, help_printed,
                   error_path, failed_file, fill_text, fill_width, ret>>

\* split_depending_on_size: open(fasta_file) or the open of chunk 1 raises
\* IOError
SizeOpenFail ==
    /\ pc = "split_depending_on_size"
    /\ \E failed \in {fasta_file, chunk_file(1)} :
          /\ Abort(failed)
          /\ cur_chunk' = IF failed = fasta_file THEN cur_chunk ELSE 1
    /\ UNCHANGED <<lines, linesep, num_chunks, max_file_size, num_entries,
                   chunk_size, pending, entries_in_chunk, file_size,
                   chunk_files, help_printed, fill_text, fill_width, ret>>

\* split_depending_on_size: one turn of the loop
SizeIter ==
    /\ pc = "size_loop"
    /\ pending # <<>>
    /\ LET header == Head(pending)[1]
           seq == Head(pending)[2]
           roll == size_rollover(file_size, max_file_size)
           chunk == IF roll THEN cur_chunk + 1 ELSE cur_chunk
           opened == IF roll THEN Append(chunk_files, <<>>) ELSE chunk_files
           output == size_output(header, seq)
       IN  /\ cur_chunk' = chunk
           /\ chunk_files' = [opened EXCEPT ![chunk] = Append(@, output)]
           /\ file_size' = (IF roll THEN 0 ELSE file_size) + Len(output)
    /\ pending' = Tail(pending)
    /\ UNCHANGED <<lines, linesep, num_chunks, max_file_size, pc, num_entries,
                   chunk_size, entries_in_chunk, exit_status, help_printed,
                   error_path, failed_file, fill_text, fill_width, ret>>

\* split_depending_on_size: a turn of the loop in which reading the input,
\* closing the full chunk, opening the next one or writing the record raises
\* IOError; the chunk whose close or write failed is cut short
SizeIterFail ==
    /\ pc = "size_loop"
    /\ LET roll == pending # <<>> /\ size_rollover(file_size, max_file_size)
       IN \E op \in {"read"} \cup (IF pending # <<>> THEN {"write"} ELSE {})
                    \cup (IF roll THEN {"close", "open"} ELSE {}) :
          /\ cur_chunk' = IF roll /\ op # "read" THEN cur_chunk + 1
                          ELSE cur_chunk
          \* file_size = 0 comes after chunk_stream.close()
          /\ file_size' = IF roll /\ op \in {"open", "write"} THEN 0
                          ELSE file_size
          /\ chunk_files' \in
                CASE op = "close" ->
                       { [chunk_files EXCEPT ![cur_chunk] = c] :
                           c \in CutShort(chunk_files[cur_chunk], 0) }
                  [] op = "write" ->
                       LET opened == IF roll THEN Append(chunk_files, <<>>)
                                     ELSE chunk_files
                           output == size_output(Head(pending)[1], Head(pending)[2])
                       IN  { [opened EXCEPT ![cur_chunk'] = c] :
                               c \in CutShort(Append(opened[cur_chunk'], output), 1) }
                  [] OTHER -> {chunk_files}
          /\ Abort(CASE op = "read" -> fasta_file
                     [] op = "close" -> chunk_file(cur_chunk)
                     [] OTHER -> chunk_file(cur_chunk'))
    /\ UNCHANGED <<lines, linesep, num_chunks, max_file_size, num_entries,
                   chunk_size, pending, entries_in_chunk, help_printed,
                   fill_text, fill_width, ret>>

\* split_depending_on_size: the input is exhausted, the last chunk is closed;
\* "Done" is printed and the program ends
SizeEnd ==
    /\ pc = "size_loop"
    /\ pending = <<>>
    /\ pc' = "done"
    /\ exit_status' = 0
    /\ UNCHANGED <<lines, linesep, num_chunks, max_file_size, num_entries,
                   chunk_size, pending, cur_chunk, entries_in_chunk, file_size,
                   chunk_files, help_printed, error_path, failed_file,
                   fill_text, fill_width, ret>>

\* split_depending_on_size: the close of the last chunk raises IOError
SizeEndFail ==
    /\ pc = "size_loop"
    /\ pending = <<>>
    /\ Abort(chunk_file(cur_chunk))
    /\ chunk_files' \in { [chunk_files EXCEPT ![cur_chunk] = c] :
                           c \in CutShort(chunk_files[cur_chunk], 0) }
    /\ UNCHANGED <<lines, linesep, num_chunks, max_file_size, num_entries,
                   chunk_size, pending, cur_chunk, entries_in_chunk, file_size,
                   help_printed, fill_text, fill_width, ret>>

Next ==
    \/ Main
    \/ CountEntries
    \/ CountEntriesFail
    \/ SplitOpen
    \/ SplitOpenFail
    \/ SplitIter
    \/ SplitIterFail
    \/ SplitEnd
    \/ SplitEndFail
    \/ SizeOpen
    \/ SizeOpenFail
    \/ SizeIter
    \/ SizeIterFail
    \/ SizeEnd
    \/ SizeEndFail

Spec == Init /\ [][Next]_vars

----------------------------------------------------------------------------
(* fill applied to a text and a width *)

FillInit ==
    /\ fill_text \in Files({"A", "C"}, MaxLen)
    /\ fill_width \in 1..MaxWidth
    /\ linesep \in Lineseps
    /\ ret = None
    /\ pc = "call"
    /\ lines = <<>>
    /\ num_chunks = 0
    /\ max_file_size = 0
    /\ Idle

ApplyFill ==
    /\ pc = "call"
    /\ ret' = fill(fill_text, fill_width)
    /\ pc' = "returned"
    /\ UNCHANGED <<lines, linesep, num_chunks, max_file_size, num_entries,
                   chunk_size, pending, cur_chunk, entries_in_chunk, file_size,
                   chunk_files, exit_status, help_printed, error_path,
                   failed_file, fill_text, fill_width>>

FillSpec == FillInit /\ [][ApplyFill]_vars

----------------------------------------------------------------------------
(* read_fasta applied to a stream of lines *)

ReadInit ==
    /\ lines \in { WithoutFinalTerminator(f) : f \in Files(ReadLines, MaxReadLines) }
                 \cup Files(ReadLines, MaxReadLines)
    /\ linesep \in Lineseps
    /\ ret = None
    /\ pc = "call"
    /\ fill_text = <<>>
    /\ fill_width = DefaultWidth
    /\ num_chunks = 0
    /\ max_file_size = 0
    /\ Idle

ApplyReadFasta ==
    /\ pc = "call"
    /\ ret' = read_fasta(lines)
    /\ pc' = "returned"
    /\ UNCHANGED <<lines, linesep, num_chunks, max_file_size, num_entries,
                   chunk_size, pending, cur_chunk, entries_in_chunk, file_size,
                   chunk_files, exit_status, help_printed, error_path,
                   failed_file, fill_text, fill_width>>

ReadSpec == ReadInit /\ [][ApplyReadFasta]_vars

----------------------------------------------------------------------------
(* What the claims speak of *)

Max(S) == CHOOSE x \in S : \A y \in S : y <= x

\* ceil(a/b) for a >= 0 and b >= 1
Ceil(a, b) == CHOOSE q \in 0..a : q * b >= a /\ (q - 1) * b < a

\* the pieces of t between the occurrences of sep, as str.split(sep) gives them
RECURSIVE SplitAt(_, _)
SplitAt(t, sep) ==
    LET at == { i \in 1..(Len(t) - Len(sep) + 1) :
                  SubSeq(t, i, i + Len(sep) - 1) = sep }
    IN  IF at = {} THEN <<t>>
        ELSE LET i == CHOOSE j \in at : \A k \in at : j <= k
             IN  <<SubSeq(t, 1, i - 1)>>
                 \o SplitAt(SubSeq(t, i + Len(sep), Len(t)), sep)

\* a line without its line terminator ("\n" or "\r\n"), and nothing else removed
Unterminated(line) ==
    LET n == Len(line)
        m == IF n >= 1 /\ line[n] = LF THEN n - 1 ELSE n
    IN  SubSeq(line, 1, IF m >= 1 /\ m < n /\ line[m] = CR THEN m - 1 ELSE m)

\* a line without its trailing whitespace
Stripped(line) ==
    SubSeq(line, 1,
           Max({0} \cup { i \in 1..Len(line) : line[i] \notin Whitespace }))

\* the record a written text holds, line-wrap boundaries ignored: its first
\* line is the header, its other lines joined are the sequence
RecordOf(t) ==
    LET ls == SplitAt(SubSeq(t, 1, Len(t) - 1), <<LF>>)
        ul == [i \in 1..Len(ls) |-> Unterminated(ls[i] \o <<LF>>)]
    IN  <<ul[1], join(<<>>, Tail(ul))>>

\* the texts written, chunk after chunk, each chunk in written order
RECURSIVE Flatten(_)
Flatten(ss) == IF ss = <<>> THEN <<>> ELSE Head(ss) \o Flatten(Tail(ss))

WrittenTexts == Flatten(chunk_files)

WrittenRecords == [i \in 1..Len(WrittenTexts) |-> RecordOf(WrittenTexts[i])]

\* the serialized size of a chunk: the lengths of the texts written to it
RECURSIVE FileLen(_)
FileLen(chunk) ==
    IF chunk = <<>> THEN 0 ELSE Len(Head(chunk)) + FileLen(Tail(chunk))

\* the number of records of the input file
Entries == Len(read_fasta(lines))

CountPolicy == num_chunks >= 1
SizePolicy == num_chunks = 0 /\ max_file_size >= 1
InLoop == pc \in {"split_loop", "size_loop"}

\* the chunks closed so far by a run that met no I/O error
ClosedChunks ==
    IF pc = "done" THEN 1..Len(chunk_files)
    ELSE IF InLoop THEN 1..(Len(chunk_files) - 1)
    ELSE {}

\* the indices of the header lines of the input, and the k-th of them
HeaderLines == { i \in 1..Len(lines) : lines[i] # <<>> /\ lines[i][1] = GT }
HeaderLine(k) ==
    CHOOSE i \in HeaderLines : Cardinality({ j \in HeaderLines : j <= i }) = k
\* the lines after the k-th header line, up to the next header line or the end
BodyLines(k) ==
    { j \in 1..Len(lines) :
        /\ j > HeaderLine(k)
        /\ \A h \in HeaderLines : h > HeaderLine(k) => j < h }

\* the lines ls of the indices S, joined in increasing order of index
RECURSIVE JoinedLines(_, _)
JoinedLines(ls, S) ==
    IF S = {} THEN <<>>
    ELSE LET j == CHOOSE x \in S : \A y \in S : x <= y
         IN  ls[j] \o JoinedLines(ls, S \ {j})

\* read_fasta's result is the records of the header lines, lines changed by Op
RecordsAre(Op(_)) ==
    LET ls == [i \in 1..Len(lines) |-> Op(lines[i])] IN
    /\ Len(ret) = Cardinality(HeaderLines)
    /\ \A k \in 1..Len(ret) :
          /\ ret[k][1] = ls[HeaderLine(k)]
          /\ ret[k][2] = JoinedLines(ls, BodyLines(k))

----------------------------------------------------------------------------
(* The claims *)

\* C1: round-trip completeness. The records held by the texts written to the
\* chunk files, read in increasing chunk index and in written order, followed
\* by the records not yet written, are the records of the input file; when the
\* writer is done they are exactly the input's records.
C1_RoundTrip ==
    (InLoop \/ pc = "done") =>
        /\ WrittenRecords \o pending = read_fasta(lines)
        /\ pc = "done" => WrittenRecords = read_fasta(lines)

C1_Witness ==
    /\ pc = "done"
    /\ SizePolicy
    /\ Len(chunk_files) >= 3
    /\ \E k \in 1..Len(chunk_files) : Len(chunk_files[k]) >= 2
    /\ \E i \in 1..Len(WrittenRecords) :
          Len(WrittenRecords[i][2]) > DefaultWidth

\* C2: count policy. With n >= 1 chunks requested and E >= 1 records,
\* chunk_size is ceil(E/n), split creates ceil(E/chunk_size) chunks, every
\* chunk but the last holds chunk_size records and the last holds the
\* remaining E - (chunks-1)*chunk_size > 0 records.
C2_CountPolicy ==
    (pc = "done" /\ CountPolicy /\ Entries >= 1) =>
        LET cs == Ceil(Entries, num_chunks)
            k == Len(chunk_files)
        IN  /\ chunk_size = cs
            /\ k = Ceil(Entries, cs)
            /\ \A i \in 1..(k - 1) : Len(chunk_files[i]) = cs
            /\ Len(chunk_files[k]) = Entries - (k - 1) * cs
            /\ Len(chunk_files[k]) > 0

\* 5 records and -n 2: chunks of 3 and 2 records
C2_Witness ==
    /\ pc = "done"
    /\ num_chunks = 2
    /\ Entries = 5
    /\ Len(chunk_files) = 2
    /\ Len(chunk_files[1]) = 3
    /\ Len(chunk_files[2]) = 2

\* C3: size policy. Every chunk file but the last has a serialized size of at
\* least max_file_size.
C3_SizeRollover ==
    SizePolicy =>
        \A k \in 1..(Len(chunk_files) - 1) :
            FileLen(chunk_files[k]) >= max_file_size

C3_Witness ==
    /\ pc = "done"
    /\ SizePolicy
    /\ Len(chunk_files) >= 3
    /\ Len(chunk_files[1]) = 2
    /\ FileLen(chunk_files[1]) = max_file_size
    /\ FileLen(chunk_files[2]) > max_file_size

\* C4 as stated: whatever the number of records of the input, every chunk
\* closed by a writer holds at least one record.
C4_NoEmptyChunk ==
    \A k \in ClosedChunks : chunk_files[k] # <<>>

\* C4 amended: when the input holds at least one record, every chunk closed by
\* a writer holds at least one record.
C4_NoEmptyChunkOfRecords ==
    Entries >= 1 => \A k \in ClosedChunks : chunk_files[k] # <<>>

C4_Witness ==
    /\ pc = "done"
    /\ CountPolicy
    /\ Entries = 1
    /\ num_chunks = 2
    /\ Len(chunk_files) = 1
    /\ Len(chunk_files[1]) = 1

\* C5: whatever os.linesep is, the text written for a record, by either writer,
\* is header, line terminator, formatted sequence, line terminator.
C5_SameFormatting ==
    (InLoop \/ pc = "done") =>
        \A i \in 1..Len(WrittenTexts) :
            LET header == read_fasta(lines)[i][1]
                seq == read_fasta(lines)[i][2]
            IN  WrittenTexts[i] =
                    header \o linesep \o fill(seq, DefaultWidth) \o linesep

\* C6: with neither -n nor -m, the help is printed, no chunk file is created
\* and the exit status is not zero.
C6_MissingPolicy ==
    (pc = "exited" /\ num_chunks = 0 /\ max_file_size = 0) =>
        /\ help_printed
        /\ chunk_files = <<>>
        /\ exit_status # 0

\* C7: after an I/O error in a writer the process has exited unsuccessfully and
\* the error reported names the file whose operation failed.
C7_OffendingFile ==
    (pc = "exited" /\ failed_file # None) =>
        /\ exit_status # 0
        /\ error_path = failed_file

\* C8 as stated: for every text, the empty one included, the lines of
\* fill(text, width) joined are text, every line but the last is width long
\* and the last is 1 to width long.
C8_WrapLaw ==
    pc = "returned" =>
        LET ls == SplitAt(ret, linesep) IN
        /\ join(<<>>, ls) = fill_text
        /\ \A i \in 1..(Len(ls) - 1) : Len(ls[i]) = fill_width
        /\ Len(ls[Len(ls)]) \in 1..fill_width

\* C8 amended: the lines of fill(text, width) joined are text and every line
\* but the last is width long; the last is 1 to width long when text is not
\* empty, and fill of the empty text is the empty text.
C8_WrapLawNonEmpty ==
    pc = "returned" =>
        LET ls == SplitAt(ret, linesep) IN
        /\ join(<<>>, ls) = fill_text
        /\ \A i \in 1..(Len(ls) - 1) : Len(ls[i]) = fill_width
        /\ fill_text # <<>> => Len(ls[Len(ls)]) \in 1..fill_width
        /\ fill_text = <<>> => ret = <<>>

C8_Witness ==
    /\ pc = "returned"
    /\ Len(fill_text) = 5
    /\ fill_width = 2
    /\ linesep = <<CR, LF>>
    /\ Len(SplitAt(ret, linesep)) = 3

\* C9 as stated: read_fasta yields one record per line beginning with ">", in
\* order; the header is that line and the sequence the lines up to the next
\* header line joined, each line with only its line terminator removed.
C9_RecordsUnterminated ==
    pc = "returned" => RecordsAre(Unterminated)

\* C9 amended: the same, each line with all its trailing whitespace (the line
\* terminator included) removed.
C9_RecordsStripped ==
    pc = "returned" => RecordsAre(Stripped)

C9_Witness ==
    /\ pc = "returned"
    /\ Len(lines) = 3
    /\ lines[1] = <<"A", "C", LF>>
    /\ lines[2] = <<GT, "b", SP, VT, LF>>
    /\ lines[3] = <<"G", SP, CR>>
    /\ ret = << << <<GT, "b">>, <<"G">> >> >>

\* C10: size policy. A record is written to a chunk only while the chunk's
\* size is below max_file_size, so every chunk was below max_file_size before
\* its last record; and in the loop file_size is the serialized size of the
\* open chunk, which is chunk cur_chunk.
C10_Overshoot ==
    SizePolicy =>
        /\ \A k \in 1..Len(chunk_files) :
              chunk_files[k] # <<>> =>
                  FileLen(SubSeq(chunk_files[k], 1, Len(chunk_files[k]) - 1))
                      < max_file_size
        /\ (pc \in {"size_loop", "done"}) =>
              /\ cur_chunk = Len(chunk_files)
              /\ file_size = FileLen(chunk_files[cur_chunk])

C10_Witness ==
    /\ pc = "size_loop"
    /\ SizePolicy
    /\ cur_chunk = 2
    /\ Len(chunk_files[1]) = 2
    /\ Len(chunk_files[2]) = 2
    /\ file_size > max_file_size

====
